---- MODULE Spec2Model ----
(***************************************************************************)
(* ANI-Cache: the cache-aware computation engine of ani_cache/fastani.py.  *)
(* One FastANI object, its SQLite cache, and up to MaxCalls successive     *)
(* calls of FastANI.pairs, each either answered by the initial cache       *)
(* check, computed sequentially, or computed by a pool of worker processes *)
(* fed through worker_queue and drained through writer_queue; write_cache  *)
(* and the reopening of the cache file between calls.  SpecAdapter and     *)
(* SpecCombine examine FastANI.fastani and symmetric_ani / mean_ani on     *)
(* their own inputs.                                                       *)
(***************************************************************************)
EXTENDS Bags, FiniteSets, Integers, Sequences, TLC

\* ------------------------------------------------------------------ bounds
\* the worker counts (cpus) given to the constructor: no worker, one
\* worker, two concurrent workers
CpuCounts == {0, 1, 2}
\* requests hold 0..(SeqThreshold + MaxExtra) pairs
MaxExtra == 1
\* number of successive calls of FastANI.pairs on one object
MaxCalls == 2

\* fastani.py:41 sets self.DB_BATCH_SIZE = 100 and tests/test_fastani.py:103
\* sets it to 1; the model explores the batch sizes 1..MaxBatch
MaxBatch == 2

\* -------------------------------------------------------- program constants
\* fastani.py:220  if len(gid_pairs) <= 6
SeqThreshold == 6
\* fastani.py:145  if len(result_tokens) == 5
NumTokens == 5

MaxPairs == SeqThreshold + MaxExtra

None == "None"

\* (None, None): the sentinel of the input queue; also "no failing pair"
NoBad == <<None, None>>

\* ------------------------------------------------------------ request data
\* Ordered (query, reference) pairs over three genome ids, in a fixed
\* enumeration; the first two are the reciprocal pair of the test suite.
AllPairs ==
    << <<"g1", "g2">>, <<"g2", "g1">>, <<"g1", "g3">>, <<"g3", "g1">>,
       <<"g2", "g3">>, <<"g3", "g2">>, <<"g1", "g1">>, <<"g2", "g2">>,
       <<"g3", "g3">> >>

NumAllPairs == Len(AllPairs)

\* A request of n pairs cycling over the first k pairs of AllPairs:
\* k = NumAllPairs gives a list of distinct pairs, k = SeqThreshold a list
\* that, like the test suite's, repeats pairs once it is long enough for
\* the worker pool.
Request(n, k) == [i \in 1..n |-> AllPairs[((i - 1) % k) + 1]]

Cycles == {SeqThreshold, NumAllPairs}

Requests == {Request(n, k) : n \in 0..MaxPairs, k \in Cycles}

KeySet(pairs) == {pairs[i] : i \in DOMAIN pairs}

\* ------------------------------------------------------------ external tool
\* The fastANI process for one ordered pair, as (returncode, stdout tokens).
\* The tool is deterministic; ani differs by direction.  The pair named by
\* `bad` is one the tool cannot process (exit status 1).  The pair (g1, g3)
\* stands for a pair below the reporting threshold: empty stdout.
GenomeNo(g) == CASE g = "g1" -> 1 [] g = "g2" -> 2 [] OTHER -> 3

\* A token of stdout behind the two paths: a number, which float() and
\* int() convert, or text, on which they raise ValueError.
Number(n) == [numeric |-> TRUE, value |-> n]

Text == [numeric |-> FALSE, value |-> 0]

ToolRun(qid, rid, badpair) ==
    IF <<qid, rid>> = badpair
    THEN [returncode |-> 1, stdout |-> << >>]
    ELSE IF <<qid, rid>> = <<"g1", "g3">>
    THEN [returncode |-> 0, stdout |-> << >>]
    ELSE [returncode |-> 0,
          stdout |-> <<qid, rid, Number(900 + 10 * GenomeNo(qid) + GenomeNo(rid)),
                       Number(10 + GenomeNo(qid)), Number(20)>>]

\* the outcome of a failed call of FastANI.fastani
Failed(error) == [ok |-> FALSE, error |-> error, ani_af |-> << >>, popen |-> 1]

\* the exit status not looked at
FastaniOutcome_IgnoreExit(qid, rid, proc) ==
    LET result_tokens == proc.stdout
    IN  IF Len(result_tokens) = NumTokens
        THEN IF \E i \in 3..NumTokens : ~result_tokens[i].numeric
             THEN Failed("ValueError")
             ELSE IF result_tokens[5].value = 0
             THEN Failed("ZeroDivisionError")
             ELSE [ok |-> TRUE, error |-> "none", popen |-> 1,
                   ani_af |-> <<qid, rid, result_tokens[3].value,
                                (result_tokens[4].value * 1000) \div result_tokens[5].value>>]
        ELSE IF Len(result_tokens) = 0
        THEN [ok |-> TRUE, error |-> "none", popen |-> 1, ani_af |-> <<qid, rid, 0, 0>>]
        ELSE Failed("FastANIError")

\* FastANI.fastani from the finished process on (fastani.py:131-156): one
\* subprocess.Popen per call (popen); ani in tenths of a percent, af in
\* thousandths (float(tokens[3]) / int(tokens[4]), exact for the totals used
\* here).  float() and int() raise ValueError on text, and the division
\* raises ZeroDivisionError on a total of 0.
FastaniOutcome(qid, rid, proc) ==
    LET result_tokens == proc.stdout
    IN  IF proc.returncode # 0
        THEN Failed("FastANIError")
        ELSE IF Len(result_tokens) = NumTokens
        THEN IF \E i \in 3..NumTokens : ~result_tokens[i].numeric
             THEN Failed("ValueError")
             ELSE IF result_tokens[5].value = 0
             THEN Failed("ZeroDivisionError")
             ELSE [ok |-> TRUE, error |-> "none", popen |-> 1,
                   ani_af |-> <<qid, rid, result_tokens[3].value,
                                (result_tokens[4].value * 1000) \div result_tokens[5].value>>]
        ELSE IF Len(result_tokens) = 0
        THEN [ok |-> TRUE, error |-> "none", popen |-> 1, ani_af |-> <<qid, rid, 0, 0>>]
        ELSE Failed("FastANIError")

\* FastANI.fastani for a pair of the request data
fastani(qid, rid, badpair) == FastaniOutcome(qid, rid, ToolRun(qid, rid, badpair))

\* ------------------------------------------------------------------- cache
\* ani_table is a bag of rows <<query_id, ref_id, ani, af>>.
Row(key, badpair) == fastani(key[1], key[2], badpair).ani_af

RowsOf(keys) == SetToBag({Row(k, NoBad) : k \in keys})

\* SELECT ani, af FROM ani_table WHERE query_id=? AND ref_id=?
Matching(table, qid, rid) ==
    {row \in BagToSet(table) : row[1] = qid /\ row[2] = rid}

\* Cache files left by earlier sessions of the program.
InitialCaches == {EmptyBag, RowsOf({AllPairs[1]})}

\* ------------------------------------------------------------ result table
\* ani_af[qid][rid] = (ani, af), kept as a function on pairs.
EmptyTable == [k \in {} |-> << >>]

\* a value stored under the key of the reverse direction
Put_Reversed(table, qid, rid, ani, af) ==
    [k \in DOMAIN table \cup {<<rid, qid>>} |->
        IF k = <<rid, qid>> THEN <<ani, af>> ELSE table[k]]

\* ani_af[qid][rid] = (ani, af) (fastani.py:204, 224, 263)
Put(table, qid, rid, ani, af) ==
    [k \in DOMAIN table \cup {<<qid, rid>>} |->
        IF k = <<qid, rid>> THEN <<ani, af>> ELSE table[k]]

VARIABLES
    ani_db_file,        \* TRUE iff a cache path was given to the constructor
    cpus,               \* self.cpus
    DB_BATCH_SIZE,      \* self.DB_BATCH_SIZE
    bad,                \* the pair the external tool fails on, or NoBad
    ani_table,          \* committed rows of the SQLite table
    gid_pairs,          \* argument of the current call of pairs
    cpc,                \* coordinator: idle, seq, drain, returned, raised;
                        \* closed, close_raised, open_raised (write_cache, reopen)
    seq_i,              \* sequential path: index of the next pair
    ani_af,             \* the result table being built / returned
    worker_queue,       \* input queue
    writer_queue,       \* output queue
    wpc,                \* worker: unstarted, wait, busy, done, dead, terminated
    witem,              \* the item a busy worker holds
    finished_processes,
    db_ani_af,          \* rows waiting for the next batch insert
    db_txn,             \* rows inserted through db_conn and not committed
    hist,               \* observation record (call counts, first-call results)
    pure_call           \* SpecAdapter, SpecCombine: the function called, its
                        \* arguments and its outcome

vars == <<ani_db_file, cpus, DB_BATCH_SIZE, bad, ani_table, gid_pairs, cpc, seq_i, ani_af, worker_queue, writer_queue,
          wpc, witem, finished_processes, db_ani_af, db_txn, hist, pure_call>>

config == <<ani_db_file, cpus, DB_BATCH_SIZE, bad>>

BadChoices == {NoBad, AllPairs[2]}

Workers == CpuCounts \ {0}

\* (None, None) on the input queue
Sentinel == [i |-> 0, qid |-> None, rid |-> None]

NoItem == [i |-> 0, qid |-> None, rid |-> None]

\* None on the output queue
Done == [done |-> TRUE]

Result(in_db, row) == [done |-> FALSE, in_db |-> in_db, ani_af |-> row]

Zeros(S) == [x \in S |-> 0]

NoFirst == [valid |-> FALSE]

\* hist before the first call
NoCalls ==
    [calls |-> 0, adapter_calls |-> 0, fresh |-> {}, started |-> 0,
     path |-> "none", error |-> "none", cache0 |-> EmptyBag,
     taken |-> << >>, emitted |-> << >>, received |-> 0, commits |-> 0,
     sentinels |-> Zeros(Workers), dones |-> Zeros(Workers),
     first |-> NoFirst]

\* pure_call in the specification of the engine
NoPureCall == [fn |-> "none"]

\* -------------------------------------------------------------------- Init
\* The state after FastANI(ani_cache_file, cpus), with DB_BATCH_SIZE
\* possibly overridden as the test suite does.
Init ==
    /\ ani_db_file \in BOOLEAN
    /\ cpus \in CpuCounts
    /\ DB_BATCH_SIZE \in (IF ani_db_file THEN 1..MaxBatch ELSE {1})
    /\ bad \in BadChoices
    /\ ani_table \in (IF ani_db_file THEN InitialCaches ELSE {EmptyBag})
    /\ gid_pairs = << >>
    /\ cpc = "idle"
    /\ seq_i = 1
    /\ ani_af = EmptyTable
    /\ worker_queue = << >>
    /\ writer_queue = << >>
    /\ wpc = [w \in Workers |-> "unstarted"]
    /\ witem = [w \in Workers |-> NoItem]
    /\ finished_processes = 0
    /\ db_ani_af = << >>
    /\ db_txn = << >>
    /\ hist = NoCalls
    /\ pure_call = NoPureCall

\* ------------------------------------------------------------ _check_cache
RECURSIVE CheckFrom(_, _, _, _)
CheckFrom(table, pairs, i, acc) ==
    IF i > Len(pairs) THEN [found |-> TRUE, ani_af |-> acc]
    ELSE LET rows == Matching(table, pairs[i][1], pairs[i][2])
         IN  IF rows # {}
             THEN LET db_ani_af_row == CHOOSE row \in rows : TRUE
                  IN  CheckFrom(table, pairs, i + 1,
                                Put(acc, pairs[i][1], pairs[i][2],
                                    db_ani_af_row[3], db_ani_af_row[4]))
             ELSE [found |-> FALSE, ani_af |-> EmptyTable]

\* _check_cache with a missing pair skipped instead of ending the check
RECURSIVE CheckFrom_Skip(_, _, _, _)
CheckFrom_Skip(table, pairs, i, acc) ==
    IF i > Len(pairs) THEN [found |-> TRUE, ani_af |-> acc]
    ELSE LET rows == Matching(table, pairs[i][1], pairs[i][2])
         IN  IF rows # {}
             THEN LET db_ani_af_row == CHOOSE row \in rows : TRUE
                  IN  CheckFrom_Skip(table, pairs, i + 1,
                                     Put(acc, pairs[i][1], pairs[i][2],
                                         db_ani_af_row[3], db_ani_af_row[4]))
             ELSE CheckFrom_Skip(table, pairs, i + 1, acc)

_check_cache_skip(has_db, table, pairs) ==
    IF ~has_db /\ Len(pairs) > 0
    THEN [error |-> "AttributeError", found |-> FALSE, ani_af |-> EmptyTable]
    ELSE [error |-> "none"] @@ CheckFrom_Skip(table, pairs, 1, EmptyTable)

\* FastANI._check_cache: the table of cached values, or None (found = FALSE)
\* when a pair is missing.  Without a cache file self.db_cur was never set,
\* so the first lookup raises AttributeError.
_check_cache(has_db, table, pairs) ==
    IF ~has_db /\ Len(pairs) > 0
    THEN [error |-> "AttributeError", found |-> FALSE, ani_af |-> EmptyTable]
    ELSE [error |-> "none"] @@ CheckFrom(table, pairs, 1, EmptyTable)

\* `if ani_af:` at fastani.py:214 -- None and the empty table are both falsy
PrecheckReturns(chk) == chk.error = "none" /\ chk.found /\ DOMAIN chk.ani_af # {}

\* the threshold comparison off by one, either way
UseSequential_Strict(n) == n < SeqThreshold

UseSequential_Late(n) == n <= SeqThreshold + 1

\* fastani.py:220
UseSequential(n) == n <= SeqThreshold

\* --------------------------------------------------------------- the calls
NewCall(path, error) ==
    [hist EXCEPT !.calls = hist.calls + 1,
                 !.adapter_calls = 0, !.fresh = {}, !.started = 0,
                 !.path = path, !.error = error, !.cache0 = ani_table,
                 !.taken = Zeros(1..0), !.emitted = Zeros(1..0), !.received = 0,
                 !.commits = 0,
                 !.sentinels = Zeros(Workers), !.dones = Zeros(Workers),
                 !.first = IF hist.calls = 0 THEN NoFirst
                           ELSE [valid |-> TRUE, gid_pairs |-> gid_pairs,
                                 ani_af |-> ani_af, path |-> hist.path,
                                 adapter_calls |-> hist.adapter_calls,
                                 cache0 |-> hist.cache0, cache1 |-> ani_table]]

\* pairs may be called when no call is running.  A later call follows a
\* call that returned; it repeats the request of the call before it, or,
\* when that request listed every pair once, asks for the same pairs in a
\* list that repeats them.
CanCall(req) ==
    /\ cpc \in {"idle", "returned"}
    /\ hist.calls < MaxCalls
    /\ hist.error = "none"
    /\ hist.calls > 0 =>
          \/ req = gid_pairs
          \/ /\ KeySet(req) = KeySet(gid_pairs)
             /\ Len(gid_pairs) = Cardinality(KeySet(gid_pairs))

PoolIdle ==
    /\ worker_queue' = << >>
    /\ writer_queue' = << >>
    /\ wpc' = [w \in Workers |-> "unstarted"]
    /\ witem' = [w \in Workers |-> NoItem]
    /\ finished_processes' = 0
    /\ db_ani_af' = << >>

\* self.db_conn.commit() at fastani.py:228: nothing was inserted, so the
\* table is unchanged; without a cache file db_conn is None and the call
\* raises AttributeError.
SeqEnd(h) ==
    IF ani_db_file
    THEN cpc' = "returned" /\ hist' = h
    ELSE cpc' = "raised" /\ hist' = [h EXCEPT !.error = "AttributeError"]

\* pairs(), initial cache check raising (fastani.py:212-213, 197)
PairsCheckRaises(req, check) ==
    /\ CanCall(req)
    /\ check
    /\ _check_cache(ani_db_file, ani_table, req).error # "none"
    /\ gid_pairs' = req
    /\ cpc' = "raised"
    /\ ani_af' = EmptyTable
    /\ seq_i' = 1
    /\ hist' = NewCall("precheck", _check_cache(ani_db_file, ani_table, req).error)
    /\ PoolIdle
    /\ UNCHANGED <<config, pure_call, ani_table, db_txn>>

\* pairs(), answered by the initial cache check (fastani.py:212-215)
PairsFromCache(req, check) ==
    /\ CanCall(req)
    /\ check
    /\ PrecheckReturns(_check_cache(ani_db_file, ani_table, req))
    /\ gid_pairs' = req
    /\ cpc' = "returned"
    /\ ani_af' = _check_cache(ani_db_file, ani_table, req).ani_af
    /\ seq_i' = 1
    /\ hist' = NewCall("precheck", "none")
    /\ PoolIdle
    /\ UNCHANGED <<config, pure_call, ani_table, db_txn>>

Dispatched(req, check) ==
    /\ CanCall(req)
    /\ check => /\ _check_cache(ani_db_file, ani_table, req).error = "none"
                /\ ~PrecheckReturns(_check_cache(ani_db_file, ani_table, req))

\* pairs(), sequential path entered (fastani.py:220-221); with no pair the
\* loop is empty and the call ends at once
PairsSequential(req, check) ==
    /\ Dispatched(req, check)
    /\ UseSequential(Len(req))
    /\ gid_pairs' = req
    /\ ani_af' = EmptyTable
    /\ seq_i' = 1
    /\ IF Len(req) = 0
       THEN SeqEnd(NewCall("seq", "none"))
       ELSE cpc' = "seq" /\ hist' = NewCall("seq", "none")
    /\ PoolIdle
    /\ UNCHANGED <<config, pure_call, ani_table, db_txn>>

\* a loop that walks the list from its end
SeqPair_Reversed(pairs, i) == pairs[Len(pairs) + 1 - i]

\* `for qid, rid in gid_pairs` (fastani.py:222): the pair of the i-th
\* iteration
SeqPair(pairs, i) == pairs[i]

\* one iteration of the loop at fastani.py:222-226, and after the last one
\* the commit and return at 228-230
SeqStep ==
    /\ cpc = "seq"
    /\ seq_i <= Len(gid_pairs)
    /\ LET qid == SeqPair(gid_pairs, seq_i)[1]
           rid == SeqPair(gid_pairs, seq_i)[2]
           r == fastani(qid, rid, bad)
           h == [hist EXCEPT !.adapter_calls = hist.adapter_calls + 1]
       IN  IF r.ok
           THEN /\ ani_af' = Put(ani_af, r.ani_af[1], r.ani_af[2], r.ani_af[3], r.ani_af[4])
                /\ seq_i' = seq_i + 1
                /\ IF seq_i = Len(gid_pairs)
                   THEN SeqEnd([h EXCEPT !.fresh = hist.fresh \cup {<<qid, rid>>}])
                   ELSE /\ cpc' = "seq"
                        /\ hist' = [h EXCEPT !.fresh = hist.fresh \cup {<<qid, rid>>}]
           ELSE /\ cpc' = "raised"
                /\ hist' = [h EXCEPT !.error = r.error]
                /\ UNCHANGED <<ani_af, seq_i>>
    /\ UNCHANGED <<config, pure_call, ani_table, gid_pairs, worker_queue,
                   writer_queue, wpc, witem, finished_processes, db_ani_af, db_txn>>

\* ---------------------------------------------------------- parallel path
\* an insert that overwrites the table with the batch
InsertRows_Replace(table, rows) == SetToBag({rows[i] : i \in DOMAIN rows})

\* INSERT INTO ani_table ... executemany + commit (fastani.py:272-274, 295-297)
InsertRows(table, rows) ==
    table (+) [row \in {rows[i] : i \in DOMAIN rows} |->
                  Cardinality({i \in DOMAIN rows : rows[i] = row})]

\* the final partial batch forgotten
FinalFlush_Drop(table, pending) == table

\* fastani.py:293-297: the final partial batch
FinalFlush(table, pending) ==
    IF pending # << >> THEN InsertRows(table, pending) ELSE table

\* one sentinel too few
Sentinels_Short(n) == [w \in 1..(n - 1) |-> Sentinel]

\* fastani.py:239-240: one (None, None) per worker process
Sentinels(n) == [w \in 1..n |-> Sentinel]

\* fastani.py:236-237: the pairs, each with its position in the list
WorkItems(req) == [i \in 1..Len(req) |-> [i |-> i, qid |-> req[i][1], rid |-> req[i][2]]]

\* pairs(), worker pool set up and started (fastani.py:233-255); with
\* cpus = 0 the loop at 256 is not entered and the call returns
PairsParallel(req, check) ==
    /\ Dispatched(req, check)
    /\ ~UseSequential(Len(req))
    /\ gid_pairs' = req
    /\ ani_af' = EmptyTable
    /\ seq_i' = 1
    /\ worker_queue' = WorkItems(req) \o Sentinels(cpus)
    /\ writer_queue' = << >>
    /\ wpc' = [w \in Workers |-> IF w <= cpus THEN "wait" ELSE "unstarted"]
    /\ witem' = [w \in Workers |-> NoItem]
    /\ finished_processes' = 0
    /\ db_ani_af' = << >>
    /\ cpc' = IF cpus = 0 THEN "returned" ELSE "drain"
    /\ hist' = [NewCall("pool", "none") EXCEPT !.started = cpus,
                                                !.taken = Zeros(1..Len(req)),
                                                !.emitted = Zeros(1..Len(req))]
    /\ UNCHANGED <<config, pure_call, ani_table, db_txn>>

\* the head read but left on the queue
Dequeue_Peek(q) == q

\* what queue_in.get() leaves on the queue: the item is removed
Dequeue(q) == Tail(q)

\* queue_in.get() in __fastani_worker (fastani.py:167-169, 190): a real pair
\* is kept for processing; on the sentinel the worker leaves its loop and
\* puts None on the output queue
WorkerGet(w) ==
    /\ wpc[w] = "wait"
    /\ worker_queue # << >>
    /\ LET item == Head(worker_queue)
       IN  /\ worker_queue' = Dequeue(worker_queue)
           /\ IF item.qid = None
              THEN /\ wpc' = [wpc EXCEPT ![w] = "done"]
                   /\ writer_queue' = Append(writer_queue, Done)
                   /\ witem' = witem
                   /\ hist' = [hist EXCEPT !.sentinels[w] = @ + 1, !.dones[w] = @ + 1]
              ELSE /\ wpc' = [wpc EXCEPT ![w] = "busy"]
                   /\ writer_queue' = writer_queue
                   /\ witem' = [witem EXCEPT ![w] = item]
                   /\ hist' = [hist EXCEPT !.taken[item.i] = @ + 1]
    /\ UNCHANGED <<config, pure_call, ani_table, gid_pairs, cpc, seq_i,
                   ani_af, finished_processes, db_ani_af, db_txn>>

\* a lookup that takes a stored (0.0, 0.0) for "no row"
WorkerLookup_ZeroMiss(has_db, table, qid, rid) ==
    IF has_db
    THEN {row \in Matching(table, qid, rid) : row[3] # 0 \/ row[4] # 0}
    ELSE {}

\* the worker's cache lookup (fastani.py:171-179); no cache file: no lookup
WorkerLookup(has_db, table, qid, rid) ==
    IF has_db THEN Matching(table, qid, rid) ELSE {}

\* cache hit in a worker (fastani.py:176-179, 187)
WorkerHit(w) ==
    /\ wpc[w] = "busy"
    /\ \E row \in WorkerLookup(ani_db_file, ani_table, witem[w].qid, witem[w].rid) :
          writer_queue' = Append(writer_queue, Result(TRUE, row))
    /\ wpc' = [wpc EXCEPT ![w] = "wait"]
    /\ witem' = [witem EXCEPT ![w] = NoItem]
    /\ hist' = [hist EXCEPT !.emitted[witem[w].i] = @ + 1]
    /\ UNCHANGED <<config, pure_call, ani_table, gid_pairs, cpc, seq_i,
                   ani_af, worker_queue, finished_processes, db_ani_af, db_txn>>

\* a worker that inserts the value it computed
WorkerTable_Insert(table, row) == table (+) SetToBag({row})

\* the table after a worker has computed a value (fastani.py:181-187): the
\* worker's connection is used for SELECT only, the row goes to queue_out
WorkerTable(table, row) == table

\* cache miss in a worker (fastani.py:181-187): the adapter is run; when it
\* raises, the exception ends the worker process and nothing is put
WorkerMiss(w) ==
    /\ wpc[w] = "busy"
    /\ WorkerLookup(ani_db_file, ani_table, witem[w].qid, witem[w].rid) = {}
    /\ LET r == fastani(witem[w].qid, witem[w].rid, bad)
           h == [hist EXCEPT !.adapter_calls = @ + 1]
       IN  IF r.ok
           THEN /\ writer_queue' = Append(writer_queue, Result(FALSE, r.ani_af))
                /\ ani_table' = WorkerTable(ani_table, r.ani_af)
                /\ wpc' = [wpc EXCEPT ![w] = "wait"]
                /\ hist' = [h EXCEPT !.emitted[witem[w].i] = @ + 1,
                                     !.fresh = @ \cup {<<witem[w].qid, witem[w].rid>>}]
           ELSE /\ writer_queue' = writer_queue
                /\ ani_table' = ani_table
                /\ wpc' = [wpc EXCEPT ![w] = "dead"]
                /\ hist' = h
    /\ witem' = [witem EXCEPT ![w] = NoItem]
    /\ UNCHANGED <<config, pure_call, gid_pairs, cpc, seq_i,
                   ani_af, worker_queue, finished_processes, db_ani_af, db_txn>>

\* every result queued for insertion, cache hits included
QueuedForInsert_All(in_db, has_db) == has_db

\* `if not in_db and self.db_conn` (fastani.py:265)
QueuedForInsert(in_db, has_db) == ~in_db /\ has_db

\* a batch written only once it holds one row more than the batch size
BatchFull_Late(pending, size) == Len(pending) = size + 1

\* `len(db_ani_af) == self.DB_BATCH_SIZE` (fastani.py:269)
BatchFull(pending, size) == Len(pending) = size

\* a loop that waits for one None more than there are workers
Draining_Over(finished, nproc) == finished # nproc + 1

\* `while finished_processes != len(worker_proc)` (fastani.py:256)
Draining(finished, nproc) == finished # nproc

\* one iteration of the coordinator loop (fastani.py:256-276); when the last
\* worker has reported, the final flush and the return (293-307) follow
CoordGet ==
    /\ cpc = "drain"
    /\ Draining(finished_processes, cpus)
    /\ writer_queue # << >>
    /\ LET rtn == Head(writer_queue)
       IN  /\ writer_queue' = Tail(writer_queue)
           /\ IF rtn.done
              THEN /\ finished_processes' = finished_processes + 1
                   /\ ani_af' = ani_af
                   /\ IF Draining(finished_processes + 1, cpus)
                      THEN /\ cpc' = "drain"
                           /\ hist' = hist
                           /\ UNCHANGED <<ani_table, db_ani_af>>
                      ELSE /\ cpc' = "returned"
                           /\ ani_table' = FinalFlush(ani_table, db_ani_af)
                           /\ db_ani_af' = << >>
                           /\ hist' = [hist EXCEPT !.commits =
                                          IF db_ani_af # << >> THEN @ + 1 ELSE @]
              ELSE /\ finished_processes' = finished_processes
                   /\ cpc' = "drain"
                   /\ ani_af' = Put(ani_af, rtn.ani_af[1], rtn.ani_af[2],
                                    rtn.ani_af[3], rtn.ani_af[4])
                   /\ IF QueuedForInsert(rtn.in_db, ani_db_file)
                      THEN IF BatchFull(Append(db_ani_af, rtn.ani_af), DB_BATCH_SIZE)
                           THEN /\ ani_table' = InsertRows(ani_table, Append(db_ani_af, rtn.ani_af))
                                /\ db_ani_af' = << >>
                                /\ hist' = [hist EXCEPT !.received = @ + 1,
                                                        !.commits = @ + 1]
                           ELSE /\ ani_table' = ani_table
                                /\ db_ani_af' = Append(db_ani_af, rtn.ani_af)
                                /\ hist' = [hist EXCEPT !.received = @ + 1]
                      ELSE /\ hist' = [hist EXCEPT !.received = @ + 1]
                           /\ UNCHANGED <<ani_table, db_ani_af>>
    /\ UNCHANGED <<config, pure_call, gid_pairs, seq_i, worker_queue,
                   wpc, witem, db_txn>>

\* p.terminate() (fastani.py:303-304): a running worker is killed, one that
\* has already exited stays as it is
Terminate(state) == IF state \in {"wait", "busy"} THEN "terminated" ELSE state

\* The database fault of the environment: the commit of a batch insert
\* (fastani.py:274) can raise in the first call on the object once that call
\* has committed a batch; the commit of the final flush (297) can raise in
\* any call.
DbFault(h) == h.calls = 1 /\ h.commits = 1

\* the except branch of pairs (fastani.py:299-305), entered when the batch
\* insert or its commit (272-274, 295-297) raises sqlite3.Error, as happens
\* when a worker's connection keeps the database locked.  The result was
\* already taken from the queue and stored in ani_af (258-263); the list
\* db_ani_af was not reset (276); the rows of the batch were inserted by
\* executemany and stay uncommitted in the connection's open transaction.
CoordExcept ==
    /\ cpc = "drain"
    /\ Draining(finished_processes, cpus)
    /\ writer_queue # << >>
    /\ ani_db_file
    /\ LET rtn == Head(writer_queue)
           batch == IF rtn.done THEN db_ani_af ELSE Append(db_ani_af, rtn.ani_af)
       IN  /\ IF rtn.done
              THEN /\ ~Draining(finished_processes + 1, cpus)
                   /\ db_ani_af # << >>
                   /\ finished_processes' = finished_processes + 1
                   /\ ani_af' = ani_af
                   /\ hist' = [hist EXCEPT !.error = "sqlite3.Error"]
              ELSE /\ QueuedForInsert(rtn.in_db, ani_db_file)
                   /\ BatchFull(batch, DB_BATCH_SIZE)
                   /\ DbFault(hist)
                   /\ finished_processes' = finished_processes
                   /\ ani_af' = Put(ani_af, rtn.ani_af[1], rtn.ani_af[2],
                                    rtn.ani_af[3], rtn.ani_af[4])
                   /\ hist' = [hist EXCEPT !.received = @ + 1,
                                           !.error = "sqlite3.Error"]
           /\ writer_queue' = Tail(writer_queue)
           /\ db_ani_af' = batch
           /\ db_txn' = batch
    /\ cpc' = "raised"
    /\ wpc' = [w \in Workers |-> Terminate(wpc[w])]
    /\ witem' = [w \in Workers |-> IF Terminate(wpc[w]) = "terminated"
                                    THEN NoItem ELSE witem[w]]
    /\ UNCHANGED <<config, pure_call, ani_table, gid_pairs, seq_i, worker_queue>>

\* ------------------------------------------------------ close and reopen
\* a row count that is 0, not None, for a table without rows
num_db_rows_Zero(has_db, table) == [none |-> FALSE, rows |-> BagCardinality(table)]

\* FastANI.num_db_rows (fastani.py:116-123): SELECT max(rowid), which is
\* None for a table without rows and the number of rows otherwise (no row
\* is ever deleted); 0 without a cache file.  The value is a record:
\* none = TRUE stands for None, otherwise rows is the number returned.
num_db_rows(has_db, table) ==
    IF has_db
    THEN [none |-> BagCardinality(table) = 0, rows |-> BagCardinality(table)]
    ELSE [none |-> FALSE, rows |-> 0]

\* a commit that keeps only the rows of the open transaction
Commit_Replace(table, txn) ==
    IF txn # << >> THEN SetToBag({txn[i] : i \in DOMAIN txn}) ELSE table

\* self.db_conn.commit() (fastani.py:113): the open transaction, if any,
\* becomes part of the table
Commit(table, txn) == IF txn # << >> THEN InsertRows(table, txn) ELSE table

\* FastANI.write_cache (fastani.py:107-114), which the fastani command runs
\* in its finally clause (main.py:131-132).  Line 112 formats num_db_rows()
\* with ',': for a table without rows that is None and the f-string raises
\* TypeError before the commit and the close.
write_cache ==
    /\ cpc \in {"idle", "returned", "raised"}
    /\ IF ~ani_db_file
       THEN cpc' = "closed" /\ UNCHANGED <<ani_table, db_txn>>
       ELSE IF num_db_rows(ani_db_file, Commit(ani_table, db_txn)).none
       THEN cpc' = "close_raised" /\ UNCHANGED <<ani_table, db_txn>>
       ELSE /\ cpc' = "closed"
            /\ ani_table' = Commit(ani_table, db_txn)
            /\ db_txn' = << >>
    /\ UNCHANGED <<config, pure_call, gid_pairs, seq_i, ani_af, worker_queue, writer_queue,
                   wpc, witem, finished_processes, db_ani_af, hist>>

\* FastANI._create_db (fastani.py:75-105) in a later session on the same
\* cache file: the table exists, nothing is created, and line 102 formats
\* num_db_rows() as write_cache does.
_create_db ==
    /\ cpc \in {"closed", "close_raised"}
    /\ cpc' = IF num_db_rows(ani_db_file, ani_table).none
              THEN "open_raised" ELSE "idle"
    /\ UNCHANGED <<config, pure_call, ani_table, db_txn, gid_pairs, seq_i, ani_af,
                   worker_queue, writer_queue, wpc, witem, finished_processes,
                   db_ani_af, hist>>

\* -------------------------------------------------------------------- Next
Next ==
    \/ \E req \in Requests, check \in BOOLEAN : PairsCheckRaises(req, check)
    \/ \E req \in Requests, check \in BOOLEAN : PairsFromCache(req, check)
    \/ \E req \in Requests, check \in BOOLEAN : PairsSequential(req, check)
    \/ \E req \in Requests, check \in BOOLEAN : PairsParallel(req, check)
    \/ SeqStep
    \/ \E w \in Workers : WorkerGet(w)
    \/ \E w \in Workers : WorkerHit(w)
    \/ \E w \in Workers : WorkerMiss(w)
    \/ CoordGet
    \/ CoordExcept
    \/ write_cache
    \/ _create_db

Spec == Init /\ [][Next]_vars

\* ---------------------------------------------------------------- SpecPool
\* One worker-pool call of pairs on an object with at least one worker
\* process, for the shortest lists that take the worker-pool path, under
\* the scheduling of the operating system: a process that can take a step
\* is not left waiting for ever (a blocking get returns once the queue
\* holds an item).  The database raises nothing in these runs.
InitPool == Init /\ cpus >= 1

PoolRequests == {Request(SeqThreshold + 1, k) : k \in Cycles}

WorkerRuns(w) == WorkerGet(w) \/ WorkerHit(w) \/ WorkerMiss(w)

NextPool ==
    \/ \E req \in PoolRequests, check \in BOOLEAN :
          hist.calls = 0 /\ PairsParallel(req, check)
    \/ \E w \in Workers : WorkerRuns(w)
    \/ CoordGet

FairPool == WF_vars(CoordGet) /\ \A w \in Workers : WF_vars(WorkerRuns(w))

SpecPool == InitPool /\ [][NextPool]_vars /\ FairPool

\* ============================================================ pure functions
\* The engine's variables while a pure function is examined: an object
\* without cache file on which pairs is never called.
EngineIdle ==
    /\ ani_db_file = FALSE
    /\ cpus = 0
    /\ DB_BATCH_SIZE = 1
    /\ bad = NoBad
    /\ ani_table = EmptyBag
    /\ gid_pairs = << >>
    /\ cpc = "idle"
    /\ seq_i = 1
    /\ ani_af = EmptyTable
    /\ worker_queue = << >>
    /\ writer_queue = << >>
    /\ wpc = [w \in Workers |-> "unstarted"]
    /\ witem = [w \in Workers |-> NoItem]
    /\ finished_processes = 0
    /\ db_ani_af = << >>
    /\ db_txn = << >>
    /\ hist = NoCalls

engine == <<config, ani_table, gid_pairs, cpc, seq_i, ani_af, worker_queue,
            writer_queue, wpc, witem, finished_processes, db_ani_af, db_txn, hist>>

\* ------------------------------------------------------------- SpecAdapter
\* FastANI.fastani on every outcome of the external tool: an exit status and
\* a stdout of 0..MaxTokens whitespace-separated tokens.
MaxTokens == 7

ExitCodes == {0, 1}

TokenChoices == {Number(0), Number(10), Number(20), Text}

\* a stdout of n tokens: the two paths, then numbers
Filled(n) ==
    [i \in 1..n |-> IF i = 1 THEN "g1" ELSE IF i = 2 THEN "g2" ELSE Number(10)]

Stdouts ==
    {Filled(n) : n \in 0..MaxTokens}
        \cup {<<"g1", "g2", a, b, c>> : a, b, c \in TokenChoices}

NotCalled == [ok |-> FALSE, error |-> "not called", ani_af |-> << >>, popen |-> 0]

InitAdapter ==
    /\ EngineIdle
    /\ pure_call \in {[fn |-> "none", proc |-> [returncode |-> rc, stdout |-> out],
                        result |-> NotCalled] : rc \in ExitCodes, out \in Stdouts}

\* self.fastani(qid, rid, q_gf, r_gf) with the process ending as pure_call.proc
CallFastani ==
    /\ pure_call.fn = "none"
    /\ pure_call' = [pure_call EXCEPT
                        !.fn = "fastani",
                        !.result = FastaniOutcome("g1", "g2", pure_call.proc)]
    /\ UNCHANGED engine

NextAdapter == CallFastani

SpecAdapter == InitAdapter /\ [][NextAdapter]_vars

\* ------------------------------------------------------------- SpecCombine
\* symmetric_ani and mean_ani on every table ani_af[gid1][gid2] over two
\* genome ids whose values are those of the test suite, (90, 0.95) and
\* (95, 0.90), in tenths of a percent and in thousandths.
CombineIds == {"g1", "g2"}

Measurements == {<<900, 950>>, <<950, 900>>}

InnerDicts == UNION {[S -> Measurements] : S \in SUBSET CombineIds}

NestedTables == UNION {[S -> InnerDicts] : S \in SUBSET CombineIds}

\* ani_af[g] on the defaultdict that pairs returns (fastani.py:253): a
\* missing key is added with an empty dict
Subscript(table, g) ==
    IF g \in DOMAIN table THEN table
    ELSE [h \in DOMAIN table \cup {g} |-> IF h = g THEN << >> ELSE table[h]]

Max(a, b) == IF a >= b THEN a ELSE b

\* the greater of the two tuples instead of the greater of each element
symmetric_ani_TupleMax(table, gid1, gid2) ==
    IF \/ gid1 \notin DOMAIN table
       \/ gid2 \notin DOMAIN table
       \/ gid1 \notin DOMAIN table[gid2]
       \/ gid2 \notin DOMAIN table[gid1]
    THEN [value |-> <<0, 0>>, ani_af |-> table]
    ELSE LET cur == table[gid1][gid2]
             rev == table[gid2][gid1]
         IN  [value |-> IF rev[1] > cur[1] \/ (rev[1] = cur[1] /\ rev[2] >= cur[2])
                        THEN rev ELSE cur,
              ani_af |-> table]

\* FastANI.symmetric_ani (fastani.py:309-331): the value returned and the
\* table as the call leaves it.  The table is subscripted only behind the
\* membership tests of both ids, which `or` evaluates left to right.
symmetric_ani(table, gid1, gid2) ==
    IF \/ gid1 \notin DOMAIN table
       \/ gid2 \notin DOMAIN table
       \/ gid1 \notin DOMAIN Subscript(table, gid2)[gid2]
       \/ gid2 \notin DOMAIN Subscript(table, gid1)[gid1]
    THEN [value |-> <<0, 0>>, ani_af |-> table]
    ELSE LET t == Subscript(Subscript(table, gid1), gid2)
             cur == t[gid1][gid2]
             rev == t[gid2][gid1]
         IN  [value |-> <<Max(rev[1], cur[1]), Max(rev[2], cur[2])>>, ani_af |-> t]

\* the sum of the two directions, not halved
mean_ani_Sum(table, gid1, gid2) ==
    IF \/ gid1 \notin DOMAIN table
       \/ gid2 \notin DOMAIN table
       \/ gid1 \notin DOMAIN table[gid2]
       \/ gid2 \notin DOMAIN table[gid1]
    THEN [value |-> <<0, 0>>, ani_af |-> table]
    ELSE LET cur == table[gid1][gid2]
             rev == table[gid2][gid1]
         IN  [value |-> <<rev[1] + cur[1], rev[2] + cur[2]>>, ani_af |-> table]

\* FastANI.mean_ani (fastani.py:333-349); the halves are exact, the sums of
\* Measurements being even
mean_ani(table, gid1, gid2) ==
    IF \/ gid1 \notin DOMAIN table
       \/ gid2 \notin DOMAIN table
       \/ gid1 \notin DOMAIN Subscript(table, gid2)[gid2]
       \/ gid2 \notin DOMAIN Subscript(table, gid1)[gid1]
    THEN [value |-> <<0, 0>>, ani_af |-> table]
    ELSE LET t == Subscript(Subscript(table, gid1), gid2)
             cur == t[gid1][gid2]
             rev == t[gid2][gid1]
         IN  [value |-> <<(rev[1] + cur[1]) \div 2, (rev[2] + cur[2]) \div 2>>,
              ani_af |-> t]

InitCombine ==
    /\ EngineIdle
    /\ pure_call \in {[fn |-> "none", ani_af |-> t, gid1 |-> None, gid2 |-> None,
                        value |-> <<0, 0>>, after |-> t] : t \in NestedTables}

\* FastANI.symmetric_ani(ani_af, gid1, gid2)
CallSymmetric(gid1, gid2) ==
    /\ pure_call.fn = "none"
    /\ LET r == symmetric_ani(pure_call.ani_af, gid1, gid2)
       IN  pure_call' = [pure_call EXCEPT !.fn = "symmetric_ani",
                                          !.gid1 = gid1, !.gid2 = gid2,
                                          !.value = r.value, !.after = r.ani_af]
    /\ UNCHANGED engine

\* FastANI.mean_ani(ani_af, gid1, gid2)
CallMean(gid1, gid2) ==
    /\ pure_call.fn = "none"
    /\ LET r == mean_ani(pure_call.ani_af, gid1, gid2)
       IN  pure_call' = [pure_call EXCEPT !.fn = "mean_ani",
                                          !.gid1 = gid1, !.gid2 = gid2,
                                          !.value = r.value, !.after = r.ani_af]
    /\ UNCHANGED engine

NextCombine ==
    \/ \E gid1, gid2 \in CombineIds : CallSymmetric(gid1, gid2)
    \/ \E gid1, gid2 \in CombineIds : CallMean(gid1, gid2)

SpecCombine == InitCombine /\ [][NextCombine]_vars

\* ---------------------------------------------------------------- SpecOpen
\* The constructor (dependency check, then _create_db), num_db_rows and
\* utils.check_dependencies, on every cache file an earlier session can
\* have left and every content of the system path.
MaxOpenCalls == 2

MaxPrograms == 2

\* the aligner, and the program the tests of utils.py look for
Programs == {"fastANI", "missing_program"}

ProgramLists == UNION {[1..n -> Programs] : n \in 0..MaxPrograms}

\* a check that reports a missing program and never exits
check_on_path_NoExit(program, exit_on_fail, on_path) ==
    IF program \in on_path THEN "True" ELSE "False"

\* utils.check_on_path (utils.py:103-126): which(program) finds the program
\* when it is on the path; sys.exit(-1) raises SystemExit
check_on_path(program, exit_on_fail, on_path) ==
    IF program \in on_path THEN "True"
    ELSE IF exit_on_fail THEN "SystemExit"
    ELSE "False"

\* the loop of utils.check_dependencies from the i-th program on
RECURSIVE CheckDependenciesFrom(_, _, _, _)
CheckDependenciesFrom(programs, i, exit_on_fail, on_path) ==
    IF i > Len(programs) THEN "True"
    ELSE LET found == check_on_path(programs[i], exit_on_fail, on_path)
         IN  IF found = "True"
             THEN CheckDependenciesFrom(programs, i + 1, exit_on_fail, on_path)
             ELSE found

\* utils.check_dependencies (utils.py:129-149)
check_dependencies(programs, exit_on_fail, on_path) ==
    CheckDependenciesFrom(programs, 1, exit_on_fail, on_path)

\* A cache file: whether ani_table and its index gid_idx exist, and the rows.
NoTable == [table |-> FALSE, index |-> FALSE, rows |-> EmptyBag]

Stores ==
    {NoTable} \cup {[table |-> TRUE, index |-> TRUE, rows |-> RowsOf(keys)] :
                       keys \in {{}, {AllPairs[1]}, {AllPairs[1], AllPairs[2]}}}

\* an open that creates the table whether or not it is there
CreateDb_Recreate(has_file, store) ==
    IF ~has_file
    THEN [store |-> store, error |-> "none"]
    ELSE [store |-> [table |-> TRUE, index |-> TRUE, rows |-> EmptyBag],
          error |-> "none"]

\* FastANI._create_db (fastani.py:75-105) on a cache file: the file as the
\* call leaves it, and the exception it raises.  A missing table is created
\* with its index; for a table that is there, line 102 formats num_db_rows()
\* with ',' and raises TypeError when that is None.
CreateDb(has_file, store) ==
    IF ~has_file
    THEN [store |-> store, error |-> "none"]
    ELSE IF ~store.table
    THEN [store |-> [table |-> TRUE, index |-> TRUE, rows |-> store.rows],
          error |-> "none"]
    ELSE IF num_db_rows(TRUE, store.rows).none
    THEN [store |-> store, error |-> "TypeError"]
    ELSE [store |-> store, error |-> "none"]

NoCount == [none |-> FALSE, rows |-> 0]

InitOpen ==
    /\ EngineIdle
    /\ pure_call \in
          {[fn |-> "none", on_path |-> path, has_file |-> file,
            store0 |-> store, store |-> store, before |-> store,
            constructed |-> FALSE, calls |-> 0,
            programs |-> << >>, exit_on_fail |-> FALSE,
            outcome |-> "none", count |-> NoCount] :
              path \in SUBSET Programs, file \in BOOLEAN, store \in Stores}
    /\ ~pure_call.has_file => pure_call.store = NoTable

\* FastANI(ani_cache_file, cpus) (fastani.py:35-50): check_dependencies with
\* exit_on_fail at its default True, then _create_db
Construct ==
    /\ pure_call.calls < MaxOpenCalls
    /\ LET dep == check_dependencies(<<"fastANI">>, TRUE, pure_call.on_path)
           db == CreateDb(pure_call.has_file, pure_call.store)
       IN  pure_call' =
             IF dep # "True"
             THEN [pure_call EXCEPT !.fn = "__init__", !.calls = @ + 1,
                                    !.before = pure_call.store,
                                    !.constructed = FALSE, !.outcome = dep]
             ELSE [pure_call EXCEPT !.fn = "__init__", !.calls = @ + 1,
                                    !.before = pure_call.store,
                                    !.store = db.store,
                                    !.constructed = (db.error = "none"),
                                    !.outcome = db.error]
    /\ UNCHANGED engine

\* fastani.num_db_rows() on a constructed object
CallNumDbRows ==
    /\ pure_call.calls < MaxOpenCalls
    /\ pure_call.constructed
    /\ pure_call' = [pure_call EXCEPT
                        !.fn = "num_db_rows", !.calls = @ + 1,
                        !.before = pure_call.store, !.outcome = "none",
                        !.count = num_db_rows(pure_call.has_file, pure_call.store.rows)]
    /\ UNCHANGED engine

\* check_dependencies(programs, exit_on_fail)
CallCheckDependencies(programs, exit_on_fail) ==
    /\ pure_call.calls < MaxOpenCalls
    /\ pure_call' = [pure_call EXCEPT
                        !.fn = "check_dependencies", !.calls = @ + 1,
                        !.before = pure_call.store,
                        !.programs = programs, !.exit_on_fail = exit_on_fail,
                        !.outcome = check_dependencies(programs, exit_on_fail,
                                                       pure_call.on_path)]
    /\ UNCHANGED engine

NextOpen ==
    \/ Construct
    \/ CallNumDbRows
    \/ \E programs \in ProgramLists, exit_on_fail \in BOOLEAN :
          CallCheckDependencies(programs, exit_on_fail)

SpecOpen == InitOpen /\ [][NextOpen]_vars

\* ------------------------------------------------------------ observations
Returned == cpc = "returned"

Raised == cpc = "raised"

\* the Measurement the external tool reports for a pair
Value(k) == <<Row(k, NoBad)[3], Row(k, NoBad)[4]>>

ExpectedTable(pairs) == [k \in KeySet(pairs) |-> Value(k)]

\* number of rows of the table with the given key
RowCount(table, k) ==
    LET rows == Matching(table, k[1], k[2])
    IN  IF rows = {} THEN 0
        ELSE CopiesIn(CHOOSE row \in rows : TRUE, table)

Cached(table, k) == Matching(table, k[1], k[2]) # {}

AllCached(table, pairs) == \A k \in KeySet(pairs) : Cached(table, k)

NumSentinels(q) == Cardinality({i \in DOMAIN q : q[i].qid = None})

NumDone(q) == Cardinality({i \in DOMAIN q : q[i].done})

SentinelsLast(q) ==
    \A i, j \in DOMAIN q : (i < j /\ q[i].qid = None) => q[j].qid = None

RECURSIVE SumOver(_, _)
SumOver(f, S) ==
    IF S = {} THEN 0
    ELSE LET x == CHOOSE y \in S : TRUE IN f[x] + SumOver(f, S \ {x})

\* Rows with the same key carry the same values (the tool is deterministic),
\* so a lookup has one possible answer.
SameKeySameRow ==
    \A k \in KeySet(AllPairs) : Cardinality(Matching(ani_table, k[1], k[2])) <= 1

\* The second of two calls, both returned normally.
SecondReturned == hist.calls = 2 /\ Returned /\ hist.first.valid

\* --------------------------------------------------------------------- C1
\* C1: with a cache configured, a second call of pairs with the same list,
\* made after the first returned, returns the same table as the first and
\* runs the external tool zero times.
C1_Idempotence ==
    (ani_db_file /\ SecondReturned /\ hist.first.gid_pairs = gid_pairs)
        => (ani_af = hist.first.ani_af /\ hist.adapter_calls = 0)

\* --------------------------------------------------------------------- C2
\* C2: with a cache configured, when pairs has returned, every key whose
\* value was computed by the external tool during the call has exactly one
\* row in the cache.
C2_PersistedExactlyOnce ==
    (ani_db_file /\ Returned)
        => \A k \in hist.fresh : RowCount(ani_table, k) = 1

\* --------------------------------------------------------------------- C3
\* C3: once a worker has died of an adapter failure, the coordinator is
\* never left waiting for ever: either pairs has raised, or some step of
\* the computation is still possible.
CoordinatorBlocked == cpc = "drain" /\ ~ENABLED Next

C3_FailurePropagates ==
    (\E w \in Workers : wpc[w] = "dead") => ~CoordinatorBlocked

\* --------------------------------------------------------------------- C4
\* C4: a request of at most 6 pairs that is computed is computed in the
\* calling process and no worker process is started; a request of 7 or more
\* pairs that is computed is handed to the worker pool, which starts cpus
\* worker processes.
C4_Threshold ==
    hist.calls > 0 =>
        /\ Len(gid_pairs) <= 6 =>
              /\ hist.path \in {"precheck", "seq"}
              /\ hist.started = 0
              /\ \A w \in Workers : wpc[w] = "unstarted"
              /\ worker_queue = << >> /\ writer_queue = << >>
        /\ Len(gid_pairs) >= 7 =>
              /\ hist.path \in {"precheck", "pool"}
              /\ cpc # "seq"
              /\ hist.path = "pool" => hist.started = cpus

C4_Witness ==
    /\ SecondReturned
    /\ hist.first.path = "seq" /\ Len(hist.first.gid_pairs) = 6
    /\ hist.path = "pool" /\ Len(gid_pairs) = 7
    /\ hist.started = 2

\* --------------------------------------------------------------------- C5
\* C5 as stated: sequential only below 6 pairs, worker pool at 6 or more.
C5_AsStated ==
    /\ hist.path = "seq" => Len(gid_pairs) < SeqThreshold
    /\ (hist.calls > 0 /\ hist.path # "precheck" /\ Len(gid_pairs) >= SeqThreshold)
          => hist.path = "pool"

\* C5 amended: a request that is computed runs sequentially exactly when it
\* has at most 6 pairs, and uses the worker pool exactly when it has more
\* than 6.
C5_Amended ==
    /\ hist.path = "seq" <=> (hist.calls > 0 /\ hist.path # "precheck"
                              /\ Len(gid_pairs) <= SeqThreshold)
    /\ hist.path = "pool" <=> (hist.calls > 0 /\ hist.path # "precheck"
                               /\ Len(gid_pairs) > SeqThreshold)

C5_Witness ==
    hist.path = "seq" /\ Len(gid_pairs) = SeqThreshold /\ Returned
        /\ DOMAIN ani_af = KeySet(gid_pairs)

\* --------------------------------------------------------------------- C6
\* C6: when the same set of pairs has been computed once on the sequential
\* path and once by a worker pool of at least one worker, both times
\* starting from the same cache content, the two result tables are equal
\* and so are the two final cache contents.
C6_PathEquivalence ==
    (/\ SecondReturned
     /\ KeySet(hist.first.gid_pairs) = KeySet(gid_pairs)
     /\ hist.first.cache0 = hist.cache0
     /\ {hist.first.path, hist.path} = {"seq", "pool"}
     /\ cpus > 0)
        => (ani_af = hist.first.ani_af /\ ani_table = hist.first.cache1)

\* --------------------------------------------------------------------- C7
\* a call of pairs(req, initial_cache_check=True), whatever its outcome
CallWithCheck(req) ==
    \/ PairsCheckRaises(req, TRUE)
    \/ PairsFromCache(req, TRUE)
    \/ PairsSequential(req, TRUE)
    \/ PairsParallel(req, TRUE)

\* the cached values of the pairs of a request
CachedTable(table, req) ==
    [k \in KeySet(req) |->
        LET row == CHOOSE r \in Matching(table, k[1], k[2]) : TRUE
        IN  <<row[3], row[4]>>]

\* C7: with a cache configured, a call with the initial cache check whose
\* pairs are all cached (a request with no pairs included) returns in that
\* step the table of the cached values, starts no worker, runs the external
\* tool zero times and leaves the cache as it was; a call with the check and
\* a pair missing from the cache is not answered by the check but dispatched
\* (sequentially up to 6 pairs, to the worker pool above).
C7_Precheck ==
    [][\A req \in Requests :
          (ani_db_file /\ CallWithCheck(req)) =>
              IF AllCached(ani_table, req)
              THEN /\ cpc' = "returned"
                   /\ ani_af' = CachedTable(ani_table, req)
                   /\ hist'.started = 0
                   /\ hist'.adapter_calls = 0
                   /\ \A w \in Workers : wpc'[w] = "unstarted"
                   /\ ani_table' = ani_table
              ELSE /\ hist'.path = (IF Len(req) <= 6 THEN "seq" ELSE "pool")
                   /\ ani_af' = EmptyTable
                   /\ hist'.path = "pool" => hist'.started = cpus
      ]_vars

C7_Witness ==
    /\ hist.path = "precheck" /\ Returned
    /\ gid_pairs # << >>
    /\ ani_af = CachedTable(ani_table, gid_pairs)
    /\ hist.calls = 2 /\ Len(gid_pairs) > 6

\* --------------------------------------------------------------------- C8
\* C8: without a cache file, with at least one worker configured and an
\* external tool that fails on no pair, pairs never raises, and the table
\* it returns has every requested pair.
C8_NoCacheStillWorks ==
    (~ani_db_file /\ bad = NoBad /\ cpus > 0)
        => /\ ~Raised
           /\ Returned => DOMAIN ani_af = KeySet(gid_pairs)

\* --------------------------------------------------------------------- C9
\* C9: in a worker-pool call with N = cpus workers exactly N sentinels are
\* enqueued, all behind every real pair; a worker consumes at most one
\* sentinel, and it has emitted its done signal exactly when it has consumed
\* its sentinel, after which it holds no work and emits nothing more; the
\* coordinator has counted exactly the done signals it received, drains
\* while fewer than N are counted, and has returned only with N counted,
\* every worker having consumed one sentinel and emitted one done signal.
C9_SentinelProtocol ==
    hist.path = "pool" =>
        /\ SentinelsLast(worker_queue)
        /\ NumSentinels(worker_queue) + SumOver(hist.sentinels, Workers) = cpus
        /\ \A w \in Workers :
              /\ hist.sentinels[w] <= 1
              /\ hist.dones[w] = hist.sentinels[w]
              /\ (wpc[w] = "done") <=> (hist.dones[w] = 1)
              /\ wpc[w] = "done" => witem[w] = NoItem
        /\ finished_processes + NumDone(writer_queue) = SumOver(hist.dones, Workers)
        /\ cpc = "drain" => finished_processes < cpus
        /\ Returned =>
              /\ finished_processes = cpus
              /\ \A w \in 1..cpus : hist.sentinels[w] = 1 /\ hist.dones[w] = 1
              /\ NumSentinels(worker_queue) = 0
              /\ NumDone(writer_queue) = 0

C9_Witness ==
    /\ hist.path = "pool" /\ Returned
    /\ cpus = 2 /\ finished_processes = 2
    /\ hist.sentinels = [w \in Workers |-> 1]
    /\ hist.dones = [w \in Workers |-> 1]

\* -------------------------------------------------------------------- C10
\* C10: in a worker-pool call with at least one worker, no list position is
\* ever taken twice and none yields more than one result; when the call has
\* returned, every position was taken exactly once and yielded exactly one
\* result, the coordinator received one result per position, and the result
\* table has exactly the requested keys, each with the value the external
\* tool reports for it -- the same in every interleaving.
C10_ExactlyOnceDeterministic ==
    (hist.path = "pool" /\ cpus >= 1) =>
        /\ \A i \in DOMAIN gid_pairs :
              /\ hist.taken[i] <= 1
              /\ hist.emitted[i] <= hist.taken[i]
        /\ Returned =>
              /\ \A i \in DOMAIN gid_pairs : hist.taken[i] = 1 /\ hist.emitted[i] = 1
              /\ hist.received = Len(gid_pairs)
              /\ ani_af = ExpectedTable(gid_pairs)

C10_Witness ==
    /\ hist.path = "pool" /\ Returned
    /\ cpus = 2 /\ Len(gid_pairs) = 7
    /\ hist.adapter_calls = 7
    /\ ani_af = ExpectedTable(gid_pairs)

\* -------------------------------------------------------------------- C11
\* a step of a worker process
WorkerStep == \E w \in Workers : WorkerGet(w) \/ WorkerHit(w) \/ WorkerMiss(w)

\* C11: no step of a worker changes the cache -- neither the committed rows
\* nor the coordinator's open transaction; while a call of pairs is running
\* every change of the committed rows is made by a step of the coordinator.
C11_SingleWriter ==
    [][/\ WorkerStep => (ani_table' = ani_table /\ db_txn' = db_txn)
       /\ (cpc \in {"seq", "drain"} /\ ani_table' # ani_table) => CoordGet
      ]_vars

\* a worker has computed a value the cache does not hold and has handed it to
\* the coordinator
C11_Witness ==
    /\ ani_db_file /\ cpc = "drain"
    /\ \E i \in DOMAIN writer_queue :
          /\ ~writer_queue[i].done
          /\ ~writer_queue[i].in_db
          /\ ~Cached(ani_table, <<writer_queue[i].ani_af[1], writer_queue[i].ani_af[2]>>)

\* -------------------------------------------------------------------- C12
Distinct(pairs) == Len(pairs) = Cardinality(KeySet(pairs))

NoneCached(table, pairs) == \A k \in KeySet(pairs) : ~Cached(table, k)

\* C12: for every batch size, when a worker-pool call for a list of distinct
\* pairs, none of them cached at its start, has returned, no computed value
\* is left unwritten (each has its row and the pending list is empty) and the
\* number of rows has grown by exactly the number of values computed; a
\* second call with the same list then computes nothing and adds no row.
C12_BatchFlush ==
    /\ (/\ ani_db_file /\ hist.path = "pool" /\ Returned
        /\ Distinct(gid_pairs) /\ NoneCached(hist.cache0, gid_pairs))
          => /\ db_ani_af = << >>
             /\ \A k \in hist.fresh : RowCount(ani_table, k) = 1
             /\ BagCardinality(ani_table)
                  = BagCardinality(hist.cache0) + hist.adapter_calls
    /\ (/\ ani_db_file /\ SecondReturned
        /\ hist.first.path = "pool" /\ hist.first.gid_pairs = gid_pairs
        /\ Distinct(gid_pairs) /\ NoneCached(hist.first.cache0, gid_pairs))
          => /\ hist.adapter_calls = 0
             /\ ani_table = hist.first.cache1

C12_Witness ==
    /\ ani_db_file /\ SecondReturned /\ cpus = 2 /\ DB_BATCH_SIZE = 2
    /\ hist.first.path = "pool" /\ hist.first.gid_pairs = gid_pairs
    /\ Distinct(gid_pairs) /\ NoneCached(hist.first.cache0, gid_pairs)
    /\ hist.first.adapter_calls = 7
    /\ hist.path = "pool" /\ hist.adapter_calls = 0
    /\ BagCardinality(ani_table) = 7

\* -------------------------------------------------------------------- C13
\* C13: the step in which a call of pairs fails, and every step after a
\* failed call (write_cache in the caller's finally clause, a later reopen),
\* leaves every committed row in the table with its values: nothing is
\* rolled back or deleted.
C13_CommittedSurviveFailure ==
    [][hist'.error # "none" => ani_table \sqsubseteq ani_table']_vars

\* a call failed after it had committed a batch, and write_cache has run
C13_Witness ==
    /\ cpc = "closed" /\ hist.error = "sqlite3.Error"
    /\ hist.commits >= 1
    /\ hist.cache0 \sqsubseteq ani_table
    /\ BagCardinality(ani_table) > BagCardinality(hist.cache0) + DB_BATCH_SIZE

\* -------------------------------------------------------------------- C14
\* the table has the entry gid1 -> gid2
HasEntry(table, gid1, gid2) ==
    gid1 \in DOMAIN table /\ gid2 \in DOMAIN table[gid1]

\* C14: symmetric_ani returns (0.0, 0.0) when the table lacks the entry of
\* either direction; with both present it returns the greater of the two
\* ani and the greater of the two af, each on its own; the value is the one
\* the call with the ids swapped returns, and the table is left as it was.
C14_Symmetric ==
    pure_call.fn = "symmetric_ani" =>
        LET t == pure_call.ani_af
            a == pure_call.gid1
            b == pure_call.gid2
        IN  /\ (~HasEntry(t, a, b) \/ ~HasEntry(t, b, a)) => pure_call.value = <<0, 0>>
            /\ (HasEntry(t, a, b) /\ HasEntry(t, b, a)) =>
                  \A e \in 1..2 :
                     /\ pure_call.value[e] \in {t[a][b][e], t[b][a][e]}
                     /\ pure_call.value[e] >= t[a][b][e]
                     /\ pure_call.value[e] >= t[b][a][e]
            /\ pure_call.value = symmetric_ani(t, b, a).value
            /\ pure_call.after = t

\* (90, 0.95) and (95, 0.90) give (95, 0.95)
C14_Witness ==
    /\ pure_call.fn = "symmetric_ani"
    /\ pure_call.gid1 = "g1" /\ pure_call.gid2 = "g2"
    /\ HasEntry(pure_call.ani_af, "g1", "g2") /\ HasEntry(pure_call.ani_af, "g2", "g1")
    /\ pure_call.ani_af["g1"]["g2"] = <<900, 950>>
    /\ pure_call.ani_af["g2"]["g1"] = <<950, 900>>
    /\ pure_call.value = <<950, 950>>

\* -------------------------------------------------------------------- C15
\* C15: mean_ani returns (0.0, 0.0) when the table lacks the entry of either
\* direction; with both present it returns, for ani and for af, the
\* arithmetic mean of the two directions; the value is the one the call with
\* the ids swapped returns.
C15_Mean ==
    pure_call.fn = "mean_ani" =>
        LET t == pure_call.ani_af
            a == pure_call.gid1
            b == pure_call.gid2
        IN  /\ (~HasEntry(t, a, b) \/ ~HasEntry(t, b, a)) => pure_call.value = <<0, 0>>
            /\ (HasEntry(t, a, b) /\ HasEntry(t, b, a)) =>
                  \A e \in 1..2 : 2 * pure_call.value[e] = t[a][b][e] + t[b][a][e]
            /\ pure_call.value = mean_ani(t, b, a).value

\* (90, 0.95) and (95, 0.90) give (92.5, 0.925)
C15_Witness ==
    /\ pure_call.fn = "mean_ani"
    /\ pure_call.gid1 = "g1" /\ pure_call.gid2 = "g2"
    /\ HasEntry(pure_call.ani_af, "g1", "g2") /\ HasEntry(pure_call.ani_af, "g2", "g1")
    /\ pure_call.ani_af["g1"]["g2"] = <<900, 950>>
    /\ pure_call.ani_af["g2"]["g1"] = <<950, 900>>
    /\ pure_call.value = <<925, 925>>

\* -------------------------------------------------------------------- C16
\* C16: on exit status 0, a stdout of exactly 5 tokens gives ani = token[2]
\* and af = token[3] / token[4], or fails with the adapter error FastANIError
\* and with no other error; a stdout of no token gives (0.0, 0.0); every
\* other number of tokens fails with FastANIError and gives no value.
C16_Parsing ==
    (pure_call.fn = "fastani" /\ pure_call.proc.returncode = 0) =>
        LET tokens == pure_call.proc.stdout
            r == pure_call.result
        IN  /\ Len(tokens) = 5 =>
                  /\ r.error \in {"none", "FastANIError"}
                  /\ r.ok => /\ r.ani_af[3] = tokens[3].value
                             /\ r.ani_af[4] * tokens[5].value = tokens[4].value * 1000
            /\ Len(tokens) = 0 => (r.ok /\ r.ani_af[3] = 0 /\ r.ani_af[4] = 0)
            /\ Len(tokens) \notin {0, 5} =>
                  (~r.ok /\ r.error = "FastANIError" /\ r.ani_af = << >>)

\* -------------------------------------------------------------------- C17
\* C17: when the external tool exits with a non-zero status, fastani fails
\* with FastANIError whatever stdout holds, returns no value, and has run
\* the tool exactly once.
C17_ProcessFailure ==
    (pure_call.fn = "fastani" /\ pure_call.proc.returncode # 0) =>
        /\ ~pure_call.result.ok
        /\ pure_call.result.error = "FastANIError"
        /\ pure_call.result.ani_af = << >>
        /\ pure_call.result.popen = 1

\* exit status 1 with a stdout that would parse
C17_Witness ==
    /\ pure_call.fn = "fastani"
    /\ pure_call.proc.returncode = 1
    /\ pure_call.proc.stdout = <<"g1", "g2", Number(10), Number(10), Number(20)>>
    /\ pure_call.result.error = "FastANIError"

\* -------------------------------------------------------------------- C18
\* the key of the item a worker holds
HeldKey(w) == <<witem[w].qid, witem[w].rid>>

\* C18: with a cache configured, a worker that holds a pair with a row in
\* the cache -- a row of (0.0, 0.0) included -- reports that row as a hit
\* and does not run the external tool; only a pair without a row is a miss,
\* for which the tool is run once.  A call with the initial cache check
\* whose pairs all have rows is answered by the check with the stored
\* values, zeros included.
C18_ZeroIsHit ==
    [][/\ \A w \in Workers :
             (ani_db_file /\ (WorkerHit(w) \/ WorkerMiss(w))) =>
                 IF Cached(ani_table, HeldKey(w))
                 THEN /\ hist'.adapter_calls = hist.adapter_calls
                      /\ \E row \in Matching(ani_table, witem[w].qid, witem[w].rid) :
                            writer_queue' = Append(writer_queue, Result(TRUE, row))
                 ELSE hist'.adapter_calls = hist.adapter_calls + 1
       /\ (/\ ani_db_file /\ hist'.calls = hist.calls + 1
           /\ gid_pairs' # << >> /\ AllCached(ani_table, gid_pairs')
           /\ CallWithCheck(gid_pairs'))
             => /\ hist'.path = "precheck" /\ cpc' = "returned"
                /\ ani_af' = CachedTable(ani_table, gid_pairs')
      ]_vars

\* a worker has reported a stored (0.0, 0.0) as a hit
C18_Witness ==
    /\ ani_db_file
    /\ \E i \in DOMAIN writer_queue :
          /\ ~writer_queue[i].done
          /\ writer_queue[i].in_db
          /\ writer_queue[i].ani_af[3] = 0 /\ writer_queue[i].ani_af[4] = 0

\* -------------------------------------------------------------------- C19
\* C19: keys are directional.  With a cache that holds (g1, g2) and not
\* (g2, g1), a call that computes a request with (g2, g1) runs the external
\* tool for (g2, g1), and when it has returned the cache holds a row for
\* (g2, g1) with the value of that direction, next to the unchanged row for
\* (g1, g2).
C19_Directional ==
    (/\ ani_db_file /\ Returned /\ cpus > 0
     /\ hist.path # "precheck"
     /\ hist.cache0 = RowsOf({AllPairs[1]})
     /\ AllPairs[2] \in KeySet(gid_pairs))
        => /\ AllPairs[2] \in hist.fresh
           /\ Matching(ani_table, "g2", "g1") = {Row(AllPairs[2], NoBad)}
           /\ Matching(ani_table, "g1", "g2") = {Row(AllPairs[1], NoBad)}

\* -------------------------------------------------------------------- C20
\* C20: over every sequence of calls of pairs (answered by the check,
\* sequential or pooled, returning or failing), write_cache and reopening,
\* no step removes or alters a committed row -- the table only grows -- and
\* the rows a lookup finds for a key that has a row never change.
C20_AppendOnly ==
    [][/\ ani_table \sqsubseteq ani_table'
       /\ \A k \in KeySet(AllPairs) :
             Cached(ani_table, k) =>
                 Matching(ani_table', k[1], k[2]) = Matching(ani_table, k[1], k[2])
      ]_vars

\* opened, computed twice, closed and reopened, with rows added on the way
\* to those the cache file started with
C20_Witness ==
    /\ cpc = "idle" /\ hist.calls = 2 /\ hist.first.valid
    /\ hist.first.cache0 # EmptyBag
    /\ BagCardinality(ani_table) > BagCardinality(hist.first.cache0)
    /\ hist.first.cache0 \sqsubseteq ani_table

\* -------------------------------------------------------------------- C21
\* C21: opening a cache file that holds no table creates the table and the
\* index; opening a file that holds the table, once or repeatedly, creates
\* nothing, and no open ever changes the rows the file held.
C21_OpenIdempotent ==
    /\ pure_call.store.rows = pure_call.store0.rows
    /\ (pure_call.fn = "__init__" /\ pure_call.has_file
        /\ "fastANI" \in pure_call.on_path) =>
          /\ ~pure_call.before.table =>
                (pure_call.store.table /\ pure_call.store.index
                 /\ pure_call.outcome = "none")
          /\ pure_call.before.table => pure_call.store = pure_call.before
          /\ (pure_call.before.table /\ pure_call.before.rows # EmptyBag) =>
                (pure_call.constructed /\ pure_call.outcome = "none")

\* a populated cache file opened twice
C21_Witness ==
    /\ pure_call.fn = "__init__" /\ pure_call.calls = 2 /\ pure_call.constructed
    /\ pure_call.has_file
    /\ pure_call.store0.rows = RowsOf({AllPairs[1], AllPairs[2]})
    /\ pure_call.store = pure_call.store0

\* -------------------------------------------------------------------- C22
\* C22: when fastANI is not on the path the constructor ends in SystemExit
\* with the cache file untouched (no table created) and no object built;
\* check_dependencies returns True exactly when every listed program is on
\* the path, and for a list with a missing program returns False with
\* exit_on_fail false and exits with exit_on_fail true.
C22_EagerDependencyCheck ==
    /\ (pure_call.fn = "__init__" /\ "fastANI" \notin pure_call.on_path) =>
          /\ pure_call.outcome = "SystemExit"
          /\ ~pure_call.constructed
          /\ pure_call.store = pure_call.before
    /\ pure_call.fn = "check_dependencies" =>
          LET all_found == \A i \in DOMAIN pure_call.programs :
                               pure_call.programs[i] \in pure_call.on_path
          IN  /\ pure_call.outcome = "True" <=> all_found
              /\ ~all_found =>
                    pure_call.outcome = (IF pure_call.exit_on_fail
                                         THEN "SystemExit" ELSE "False")

\* the constructor stopped by the dependency check before a new cache file
\* got its table
C22_Witness ==
    /\ pure_call.fn = "__init__" /\ pure_call.outcome = "SystemExit"
    /\ pure_call.has_file /\ pure_call.store = NoTable

\* -------------------------------------------------------------------- C23
\* C23: num_db_rows returns 0 without a cache file, None on a cache whose
\* table has no row, and otherwise the number of rows of the table.
C23_RowCount ==
    pure_call.fn = "num_db_rows" =>
        /\ ~pure_call.has_file => pure_call.count = [none |-> FALSE, rows |-> 0]
        /\ (pure_call.has_file /\ pure_call.store.rows = EmptyBag) =>
              pure_call.count.none
        /\ (pure_call.has_file /\ pure_call.store.rows # EmptyBag) =>
              /\ ~pure_call.count.none
              /\ pure_call.count.rows = BagCardinality(pure_call.store.rows)

\* FastANI(db_file, 1).num_db_rows() on a new file, as in the test suite
C23_Witness ==
    /\ pure_call.fn = "num_db_rows" /\ pure_call.has_file
    /\ ~pure_call.store0.table /\ pure_call.store.table
    /\ pure_call.count.none

\* -------------------------------------------------------------------- C24
\* C24: in a worker-pool call with at least one worker in which the external
\* tool fails for no pair, under fair scheduling the call returns and every
\* started worker takes its sentinel and ends; whenever the call has
\* returned, every started worker has ended on exactly one sentinel, none
\* waits or processes a pair, and both queues are empty.
C24_Termination ==
    /\ (cpc = "drain" /\ bad = NoBad) ~> Returned
    /\ \A w \in Workers :
          (wpc[w] \in {"wait", "busy"} /\ bad = NoBad) ~>
              (wpc[w] = "done" /\ hist.sentinels[w] = 1)
    /\ [](Returned =>
             /\ \A w \in 1..cpus : wpc[w] = "done" /\ hist.sentinels[w] = 1
             /\ worker_queue = << >> /\ writer_queue = << >>)

\* a call with two workers has returned, every pair taken and reported
C24_Witness ==
    /\ Returned /\ cpus = 2 /\ bad = NoBad
    /\ \A w \in 1..cpus : wpc[w] = "done"
    /\ \A i \in DOMAIN gid_pairs : hist.taken[i] = 1 /\ hist.emitted[i] = 1
    /\ hist.received = Len(gid_pairs)

\* -------------------------------------------------------------------- C25
\* C25: whenever a call of pairs has returned, on any path and for any
\* number of worker processes, the keys of the returned table are exactly
\* the requested pairs.
C25_Completeness ==
    (hist.calls > 0 /\ Returned) => DOMAIN ani_af = KeySet(gid_pairs)

\* -------------------------------------------------------------------- C26
\* C26: every value in the table of a call of pairs is held under a
\* requested pair and is the value of exactly that ordered pair: the one
\* the external tool reports for (query, reference) when the call computed
\* the pair, and otherwise the value of the cache row with that key, which
\* is returned unchanged.
C26_Provenance ==
    \A k \in DOMAIN ani_af :
        /\ k \in KeySet(gid_pairs)
        /\ k \in hist.fresh => ani_af[k] = Value(k)
        /\ k \notin hist.fresh =>
              <<k[1], k[2], ani_af[k][1], ani_af[k][2]>> \in BagToSet(ani_table)

\* a returned worker-pool call whose table holds both directions of a pair
\* with different values, one taken from the cache and one computed
C26_Witness ==
    /\ Returned /\ hist.path = "pool" /\ cpus = 2
    /\ AllPairs[1] \in DOMAIN ani_af /\ AllPairs[1] \notin hist.fresh
    /\ AllPairs[2] \in hist.fresh
    /\ ani_af[AllPairs[1]] # ani_af[AllPairs[2]]
    /\ DOMAIN ani_af = KeySet(gid_pairs)

\* -------------------------------------------------------------------- C27
\* results on the output queue that a worker computed (in_db = False)
QueuedMisses ==
    Cardinality({i \in DOMAIN writer_queue :
                    ~writer_queue[i].done /\ ~writer_queue[i].in_db})

DeadWorkers == Cardinality({w \in Workers : wpc[w] = "dead"})

\* C27: in a worker-pool call every listed pair is taken by one worker and
\* reported at most once, exactly once when the call has returned; a result
\* marked in_db carries a row of the cache, a result not marked in_db
\* carries the value the external tool reports for its pair; the tool has
\* been run once per result not marked in_db (and once by each worker that
\* died of a failure) and never for a hit; with a cache configured the rows
\* added to the cache plus the rows pending insertion are exactly the
\* results not marked in_db that the coordinator has received, so a result
\* marked in_db adds no row.
C27_WorkerStepAndMerge ==
    (hist.path = "pool" /\ cpc \in {"drain", "returned"}) =>
        /\ \A i \in DOMAIN hist.emitted :
              /\ hist.emitted[i] <= hist.taken[i] /\ hist.taken[i] <= 1
              /\ (Returned /\ cpus >= 1) => hist.emitted[i] = 1
        /\ \A i \in DOMAIN writer_queue :
              ~writer_queue[i].done =>
                 LET row == writer_queue[i].ani_af
                 IN  IF writer_queue[i].in_db
                     THEN row \in BagToSet(ani_table)
                     ELSE /\ <<row[1], row[2]>> \in hist.fresh
                          /\ row = Row(<<row[1], row[2]>>, NoBad)
        /\ ani_db_file =>
              hist.adapter_calls =
                  DeadWorkers + QueuedMisses + Len(db_ani_af)
                  + BagCardinality(ani_table) - BagCardinality(hist.cache0)
        /\ ~ani_db_file =>
              /\ hist.adapter_calls = DeadWorkers + SumOver(hist.emitted, DOMAIN hist.emitted)
              /\ db_ani_af = << >> /\ ani_table = EmptyBag

\* a returned call of one worker with a hit and misses, a batch committed
C27_Witness ==
    /\ Returned /\ hist.path = "pool" /\ cpus = 1 /\ ani_db_file
    /\ hist.adapter_calls > 0
    /\ hist.adapter_calls < SumOver(hist.emitted, DOMAIN hist.emitted)
    /\ hist.commits >= 1
    /\ BagCardinality(ani_table) = BagCardinality(hist.cache0) + hist.adapter_calls

\* -------------------------------------------------------------------- C28
\* C28: between the steps of the coordinator in a worker-pool call, the
\* list of results pending insertion holds fewer than DB_BATCH_SIZE rows,
\* and every row the call has received beyond them is committed: the rows
\* added to the cache are as many as full batches times DB_BATCH_SIZE.
\* When the call has returned the list is empty.
C28_BoundedPending ==
    (hist.path = "pool" /\ cpc \in {"drain", "returned"}) =>
        /\ Len(db_ani_af) < DB_BATCH_SIZE
        /\ db_txn = << >>
        /\ cpc = "drain" =>
              BagCardinality(ani_table) - BagCardinality(hist.cache0)
                  = hist.commits * DB_BATCH_SIZE
        /\ Returned => db_ani_af = << >>

\* a batch of two committed, one row of the next batch pending
C28_Witness ==
    /\ cpc = "drain" /\ DB_BATCH_SIZE = 2
    /\ Len(db_ani_af) = DB_BATCH_SIZE - 1
    /\ hist.commits >= 1

\* -------------------------------------------------------------------- C29
\* the pairs of the first n positions of the list
Prefix(pairs, n) == {pairs[i] : i \in 1..n}

\* C29: on the sequential path, after n iterations the external tool has
\* been run n times and the table holds exactly the first n listed pairs,
\* each with the tool's value for it; the call returns after one run per
\* listed pair; when the tool fails at a pair, every pair before it is in
\* the table, the failing run was the last one, and the call raises the
\* tool's error.
C29_SequentialOrder ==
    (hist.path = "seq" /\ cpc \in {"seq", "returned", "raised"}) =>
        /\ DOMAIN ani_af = Prefix(gid_pairs, seq_i - 1)
        /\ hist.fresh = DOMAIN ani_af
        /\ \A k \in DOMAIN ani_af : ani_af[k] = Value(k)
        /\ cpc = "seq" =>
              (seq_i <= Len(gid_pairs) /\ hist.adapter_calls = seq_i - 1)
        /\ Returned =>
              (seq_i = Len(gid_pairs) + 1 /\ hist.adapter_calls = Len(gid_pairs))
        /\ (Raised /\ hist.error = "FastANIError") =>
              /\ gid_pairs[seq_i] = bad
              /\ bad \notin Prefix(gid_pairs, seq_i - 1)
              /\ hist.adapter_calls = seq_i
        /\ (Raised /\ hist.error # "FastANIError") =>
              (~ani_db_file /\ hist.adapter_calls = Len(gid_pairs))

\* the tool failed at the second of at least three pairs
C29_Witness ==
    /\ Raised /\ hist.path = "seq" /\ hist.error = "FastANIError"
    /\ seq_i = 2 /\ Len(gid_pairs) >= 3
    /\ DOMAIN ani_af = {gid_pairs[1]}

\* -------------------------------------------------------------------- C30
\* C30: the cache never holds two rows with the same (query_id, ref_id),
\* whatever the calls made, the lists requested (lists that repeat a pair
\* included), the interleaving of workers and coordinator and the batch
\* size.
C30_KeyUnique ==
    \A k \in KeySet(AllPairs) : RowCount(ani_table, k) <= 1

====
